---- MODULE Spec2Model ----
(***************************************************************************)
(* The verification history store of the health-claim checker              *)
(* (src/src/context/VerificationContext.tsx): a React reducer over an      *)
(* array of verification records, rehydrated from and persisted to         *)
(* localStorage under the key 'healthcheck-verifications'.                 *)
(*                                                                         *)
(* JavaScript values are modelled as tagged records so that every value of *)
(* one variable is comparable with every other: a leaf is [t, v], the      *)
(* reducer state's `verifications` is [kind, items], JSON text is a        *)
(* sequence of tokens.                                                     *)
(***************************************************************************)
EXTENDS Naturals, Sequences, FiniteSets, TLC

\* ------------------------------------------------------------------ bounds
\* Longest history the model lets the add calls build.
MaxLen == 3
\* Most dispatches that may be pending before React renders them.
MaxQueue == 2
\* The same two bounds where the storage medium may fail.
FaultMaxLen == 2
FaultMaxQueue == 1

\* ------------------------------------------------------------ JS values
Str(s) == [t |-> "string", v |-> s]
Num(s) == [t |-> "number", v |-> s]
Undefined == [t |-> "undefined", v |-> ""]

\* interface VerificationResult / interface Verification, with the fields
\* the model carries: result.language is one of the optional ones.
MkResult(verdict, confidence, language) ==
  [verdict |-> verdict, confidence |-> confidence, language |-> language]

MkVerification(id, claim, res, at) ==
  [id |-> id, input |-> claim, result |-> res, timestamp |-> at]

\* What reading any field of a missing object gives.
NoResult == MkResult(Undefined, Undefined, Undefined)
NoVerification == MkVerification(Undefined, Undefined, NoResult, Undefined)

\* The ids the clock hands out (Date.now().toString()), as strings.
Ids == {Str("1"), Str("2"), Str("3")}
\* The ids the healthy-medium specification removes: one that two sample
\* records share and one that a single record has.
SharedIds == {Str("1"), Str("2")}

\* Sample records: two share the id "1" (completed in the same millisecond)
\* and differ in every other field; one has no result.language.
RecA == MkVerification(Str("1"), Str("claim A"),
          MkResult(Str("true"), Num("90"), Str("English")), Str("2024-01-01T00:00:00Z"))
RecA2 == MkVerification(Str("1"), Str("claim A'"),
          MkResult(Str("misleading"), Num("95"), Undefined), Str("2024-01-01T00:00:00Z"))
RecB == MkVerification(Str("2"), Str("claim B"),
          MkResult(Str("needs review"), Num("72"), Undefined), Str("2024-01-02T00:00:00Z"))
RecC == MkVerification(Str("3"), Str("claim C"),
          MkResult(Str("true"), Num("60"), Str("English")), Str("2024-01-03T00:00:00Z"))
Records == {RecA, RecA2, RecB, RecC}
\* The records added where the storage medium may fail.
FaultRecords == {RecA, RecB}
\* The record added where whole executions are checked.
LiveRecords == {RecA}

\* state.verifications: an array, or whatever else JSON.parse handed over.
Arr(items) == [kind |-> "array", items |-> items]
JsNull == [kind |-> "null", items |-> <<>>]
JsObject == [kind |-> "object", items |-> <<>>]
JsNumber == [kind |-> "number", items |-> <<>>]
EmptyArr == Arr(<<>>)

\* --------------------------------------------------------------- JSON text
\* JSON text is a sequence of tokens: punctuation, object keys, string and
\* number literals (the leaves themselves) and the literal null.
P(s) == [t |-> "punct", v |-> s]
K(s) == [t |-> "key", v |-> s]
NullTok == [t |-> "null", v |-> ""]

\* JSON.stringify of one object member: a member whose value is undefined
\* is left out of the text.
Member(key, leaf) == IF leaf.t = "undefined" THEN <<>> ELSE <<K(key), leaf>>

StringifyResult(r) ==
  <<P("{")>> \o Member("verdict", r.verdict) \o Member("confidence", r.confidence)
             \o Member("language", r.language) \o <<P("}")>>

\* Keys in the order the submit flow creates them: id, input, result, timestamp.
StringifyVerification(v) ==
  <<P("{")>> \o Member("id", v.id) \o Member("input", v.input)
             \o (IF v.result = NoResult THEN <<>> ELSE <<K("result")>> \o StringifyResult(v.result))
             \o Member("timestamp", v.timestamp) \o <<P("}")>>

\* Mutant: the array is written oldest first.
RECURSIVE StringifyItemsOldestFirst(_)
StringifyItemsOldestFirst(items) ==
  IF items = <<>> THEN <<>>
  ELSE StringifyItemsOldestFirst(Tail(items)) \o StringifyVerification(Head(items))

RECURSIVE StringifyItems(_)
StringifyItems(items) ==
  IF items = <<>> THEN <<>>
  ELSE StringifyVerification(Head(items)) \o StringifyItems(Tail(items))

\* JSON.stringify(state.verifications)
JSONStringify(value) ==
  CASE value.kind = "array"  -> <<P("[")>> \o StringifyItems(value.items) \o <<P("]")>>
    [] value.kind = "null"   -> <<NullTok>>
    [] value.kind = "object" -> <<P("{"), P("}")>>
    [] value.kind = "number" -> <<Num("5")>>

\* Parsers work on a position in the text and answer [ok, val, next];
\* ok = FALSE is JSON.parse's SyntaxError.
ParseFail == [ok |-> FALSE, val |-> NoVerification, next |-> 0]
IsLeafTok(tok) == tok.t \in {"string", "number"}

RECURSIVE ParseResult(_, _, _)
ParseResult(text, i, acc) ==
  IF i > Len(text) THEN [ok |-> FALSE, val |-> NoResult, next |-> 0]
  ELSE IF text[i] = P("}") THEN [ok |-> TRUE, val |-> acc, next |-> i + 1]
  ELSE IF text[i].t = "key" /\ i + 1 <= Len(text) /\ IsLeafTok(text[i + 1])
    THEN ParseResult(text, i + 2,
           IF text[i].v \in DOMAIN acc THEN [acc EXCEPT ![text[i].v] = text[i + 1]] ELSE acc)
  ELSE [ok |-> FALSE, val |-> NoResult, next |-> 0]

RECURSIVE ParseVerification(_, _, _)
ParseVerification(text, i, acc) ==
  IF i > Len(text) THEN ParseFail
  ELSE IF text[i] = P("}") THEN [ok |-> TRUE, val |-> acc, next |-> i + 1]
  ELSE IF text[i].t = "key" /\ i + 1 <= Len(text) /\ IsLeafTok(text[i + 1])
    THEN ParseVerification(text, i + 2,
           IF text[i].v \in (DOMAIN acc) \ {"result"}
             THEN [acc EXCEPT ![text[i].v] = text[i + 1]] ELSE acc)
  ELSE IF text[i] = K("result") /\ i + 1 <= Len(text) /\ text[i + 1] = P("{")
    THEN LET r == ParseResult(text, i + 2, NoResult)
         IN  IF r.ok THEN ParseVerification(text, r.next, [acc EXCEPT !.result = r.val])
             ELSE ParseFail
  ELSE ParseFail

RECURSIVE ParseItems(_, _, _)
ParseItems(text, i, acc) ==
  IF i > Len(text) THEN [ok |-> FALSE, val |-> EmptyArr]
  ELSE IF text[i] = P("]")
    THEN IF i = Len(text) THEN [ok |-> TRUE, val |-> Arr(acc)] ELSE [ok |-> FALSE, val |-> EmptyArr]
  ELSE IF text[i] = P("{")
    THEN LET v == ParseVerification(text, i + 1, NoVerification)
         IN  IF v.ok THEN ParseItems(text, v.next, Append(acc, v.val))
             ELSE [ok |-> FALSE, val |-> EmptyArr]
  ELSE [ok |-> FALSE, val |-> EmptyArr]

\* JSON.parse(stored): [ok, val]; ok = FALSE when it throws.
JSONParse(text) ==
  IF text = <<NullTok>> THEN [ok |-> TRUE, val |-> JsNull]
  ELSE IF Len(text) = 1 /\ text[1].t = "number" THEN [ok |-> TRUE, val |-> JsNumber]
  ELSE IF text = <<P("{"), P("}")>> THEN [ok |-> TRUE, val |-> JsObject]
  ELSE IF Len(text) >= 2 /\ text[1] = P("[") THEN ParseItems(text, 2, <<>>)
  ELSE [ok |-> FALSE, val |-> EmptyArr]

\* ------------------------------------------------------------ localStorage
\* The value under 'healthcheck-verifications': getItem gives null when the
\* key was never written.
StorageKey == "healthcheck-verifications"
Absent == [present |-> FALSE, text |-> <<>>]
Stored(text) == [present |-> TRUE, text |-> text]

\* What an earlier program, a user or a crash may have left under the key.
InitialPayloads ==
  { Absent,
    Stored(<<>>),                      \* the empty string
    Stored(<<P("[")>>),                \* truncated text
    Stored(<<P("["), P("{"), K("id")>>),
    Stored(<<NullTok>>),               \* null
    Stored(<<P("{"), P("}")>>),        \* {}
    Stored(<<Num("5")>>) }             \* 5

\* healthy: reads and writes work; quota: setItem throws; unavailable: every
\* access throws.
Media == {"healthy", "quota", "unavailable"}

\* ---------------------------------------------------------------- reducer
\* type VerificationAction: one record shape for the four variants.
AddAction(rec) ==
  [id |-> Undefined, rec |-> rec, type |-> "ADD_VERIFICATION", payload |-> EmptyArr]
RemoveAction(id) ==
  [id |-> id, rec |-> NoVerification, type |-> "REMOVE_VERIFICATION", payload |-> EmptyArr]
ClearAction ==
  [id |-> Undefined, rec |-> NoVerification, type |-> "CLEAR_HISTORY", payload |-> EmptyArr]
LoadAction(value) ==
  [id |-> Undefined, rec |-> NoVerification, type |-> "LOAD_FROM_STORAGE", payload |-> value]

Thrown == [ok |-> FALSE, state |-> EmptyArr]
Returned(value) == [ok |-> TRUE, state |-> value]

\* Mutant: only the first record with the id goes.
RECURSIVE FilterOutFirst(_, _)
FilterOutFirst(items, id) ==
  IF items = <<>> THEN <<>>
  ELSE IF Head(items).id # id THEN <<Head(items)>> \o FilterOutFirst(Tail(items), id)
  ELSE Tail(items)

\* Mutant: the records that stay come out in the opposite order.
RECURSIVE FilterOutReversing(_, _)
FilterOutReversing(items, id) ==
  IF items = <<>> THEN <<>>
  ELSE IF Head(items).id # id THEN FilterOutReversing(Tail(items), id) \o <<Head(items)>>
  ELSE FilterOutReversing(Tail(items), id)

\* state.verifications.filter(v => v.id !== id)
RECURSIVE FilterOut(_, _)
FilterOut(items, id) ==
  IF items = <<>> THEN <<>>
  ELSE IF Head(items).id # id THEN <<Head(items)>> \o FilterOut(Tail(items), id)
  ELSE FilterOut(Tail(items), id)

\* Mutant: CLEAR_HISTORY keeps the state it was given.
verificationReducerClearKeeps(state, action) ==
  CASE action.type = "ADD_VERIFICATION" ->
         IF state.kind = "array" THEN Returned(Arr(<<action.rec>> \o state.items)) ELSE Thrown
    [] action.type = "REMOVE_VERIFICATION" ->
         IF state.kind = "array" THEN Returned(Arr(FilterOut(state.items, action.id))) ELSE Thrown
    [] action.type = "CLEAR_HISTORY" -> Returned(state)
    [] action.type = "LOAD_FROM_STORAGE" -> Returned(action.payload)

\* Mutant: ADD_VERIFICATION puts the record last.
verificationReducerAppends(state, action) ==
  CASE action.type = "ADD_VERIFICATION" ->
         IF state.kind = "array" THEN Returned(Arr(Append(state.items, action.rec))) ELSE Thrown
    [] action.type = "REMOVE_VERIFICATION" ->
         IF state.kind = "array" THEN Returned(Arr(FilterOut(state.items, action.id))) ELSE Thrown
    [] action.type = "CLEAR_HISTORY" -> Returned(EmptyArr)
    [] action.type = "LOAD_FROM_STORAGE" -> Returned(action.payload)

\* Mutant: an add leaves the new record alone in the collection.
verificationReducerAddReplaces(state, action) ==
  CASE action.type = "ADD_VERIFICATION" ->
         IF state.kind = "array" THEN Returned(Arr(<<action.rec>>)) ELSE Thrown
    [] action.type = "REMOVE_VERIFICATION" ->
         IF state.kind = "array" THEN Returned(Arr(FilterOut(state.items, action.id))) ELSE Thrown
    [] action.type = "CLEAR_HISTORY" -> Returned(EmptyArr)
    [] action.type = "LOAD_FROM_STORAGE" -> Returned(action.payload)

\* verificationReducer: [ok, state]; ok = FALSE is the TypeError of spreading
\* or filtering a value that is no array.
verificationReducer(state, action) ==
  CASE action.type = "ADD_VERIFICATION" ->
         IF state.kind = "array" THEN Returned(Arr(<<action.rec>> \o state.items)) ELSE Thrown
    [] action.type = "REMOVE_VERIFICATION" ->
         IF state.kind = "array" THEN Returned(Arr(FilterOut(state.items, action.id))) ELSE Thrown
    [] action.type = "CLEAR_HISTORY" -> Returned(EmptyArr)
    [] action.type = "LOAD_FROM_STORAGE" -> Returned(action.payload)

\* React renders the pending dispatches in the order they were made.
RECURSIVE ApplyAll(_, _)
ApplyAll(state, actions) ==
  IF actions = <<>> THEN Returned(state)
  ELSE LET r == verificationReducer(state, Head(actions))
       IN  IF r.ok THEN ApplyAll(r.state, Tail(actions)) ELSE Thrown

\* getVerification: state.verifications.find(v => v.id === id)
RECURSIVE Find(_, _)
Find(items, id) ==
  IF items = <<>> THEN [tag |-> "undefined", rec |-> NoVerification]
  ELSE IF Head(items).id = id THEN [tag |-> "found", rec |-> Head(items)]
  ELSE Find(Tail(items), id)

\* Mutant: the last record of the id is returned.
getVerificationLast(value, id) ==
  IF value.kind = "array"
    THEN Find([i \in 1..Len(value.items) |-> value.items[Len(value.items) + 1 - i]], id)
  ELSE [tag |-> "throws", rec |-> NoVerification]

getVerification(value, id) ==
  IF value.kind = "array" THEN Find(value.items, id)
  ELSE [tag |-> "throws", rec |-> NoVerification]

\* ---------------------------------------------------------------- effects
\* Mutant: a read that fails is not noticed and the text is parsed anyway.
LoadEffectUnguarded(med, sto) ==
  IF ~sto.present \/ sto.text = <<>> THEN <<>>
  ELSE LET parsed == JSONParse(sto.text)
       IN  IF parsed.ok THEN <<LoadAction(parsed.val)>> ELSE <<>>

\* The mount effect: the actions it dispatches.
LoadEffect(med, sto) ==
  IF med = "unavailable" THEN <<>>                    \* getItem throws, caught
  ELSE IF ~sto.present \/ sto.text = <<>> THEN <<>>    \* if (stored) is false
  ELSE LET parsed == JSONParse(sto.text)
       IN  IF parsed.ok THEN <<LoadAction(parsed.val)>> ELSE <<>>   \* caught

\* What the mount effect met, kept for the session.
LoadOutcome(med, sto) ==
  IF med = "unavailable" THEN "unreadable"
  ELSE IF ~sto.present THEN "absent"
  ELSE IF sto.text = <<>> THEN "empty"
  ELSE IF ~JSONParse(sto.text).ok THEN "malformed"
  ELSE IF JSONParse(sto.text).val.kind # "array" THEN "wrong schema"
  ELSE "array"

\* Mutant: only the newest record is written.
SaveEffectDelta(med, sto, value) ==
  IF med = "healthy"
    THEN Stored(JSONStringify(IF value.kind = "array" /\ value.items # <<>>
                                THEN Arr(<<Head(value.items)>>) ELSE value))
    ELSE sto

\* Mutant: a failed write removes the key.
SaveEffectDropsOnFailure(med, sto, value) ==
  IF med = "healthy" THEN Stored(JSONStringify(value)) ELSE Absent

\* Mutant: an empty history is not written.
SaveEffectSkipsEmpty(med, sto, value) ==
  IF med = "healthy" /\ value # EmptyArr THEN Stored(JSONStringify(value)) ELSE sto

\* The save effect: the stored value after it, and how setItem ended.
SaveEffect(med, sto, value) ==
  IF med = "healthy" THEN Stored(JSONStringify(value)) ELSE sto   \* throw caught
SetItemOutcome(med) == IF med = "healthy" THEN "ok" ELSE "threw"

\* Mutant: the dependency is compared by content.
DepsChangedByContent(before, after) == before # after

\* The save effect's dependency [state.verifications], compared by identity:
\* every action of the reducer builds a new array (a spread, a filter, a
\* literal, a freshly parsed payload), so the effect runs after every render
\* that applied one.
DepsChanged(before, after) == TRUE

\* ---------------------------------------------------------------- strings
\* A JavaScript string is the sequence of its characters, so that
\* toLowerCase, includes and trim are computed and not assumed.
UpperCase == <<"A", "B", "C", "D", "E", "F", "G", "H", "I", "J", "K", "L", "M", "N", "O", "P", "Q", "R", "S", "T", "U", "V", "W", "X", "Y", "Z">>
LowerCase == <<"a", "b", "c", "d", "e", "f", "g", "h", "i", "j", "k", "l", "m", "n", "o", "p", "q", "r", "s", "t", "u", "v", "w", "x", "y", "z">>

LowerOf ==
  [c \in {UpperCase[i] : i \in 1..Len(UpperCase)} |->
     LowerCase[CHOOSE i \in 1..Len(UpperCase) : UpperCase[i] = c]]

toLowerCaseChar(c) == IF c \in DOMAIN LowerOf THEN LowerOf[c] ELSE c

\* String.prototype.toLowerCase
toLowerCase(s) == [i \in 1..Len(s) |-> toLowerCaseChar(s[i])]

\* String.prototype.includes
includes(s, pattern) ==
  \E i \in 1..(Len(s) + 1) :
    /\ i + Len(pattern) - 1 <= Len(s)
    /\ SubSeq(s, i, i + Len(pattern) - 1) = pattern

WhiteSpace == {" ", "\t", "\n"}

\* String.prototype.trim
RECURSIVE trimStart(_)
trimStart(s) ==
  IF s # <<>> /\ Head(s) \in WhiteSpace THEN trimStart(Tail(s)) ELSE s
RECURSIVE trimEnd(_)
trimEnd(s) ==
  IF s # <<>> /\ s[Len(s)] \in WhiteSpace THEN trimEnd(SubSeq(s, 1, Len(s) - 1)) ELSE s
trim(s) == trimEnd(trimStart(s))

\* The words the clients look for, and the messages they throw.
vaccine == <<"v", "a", "c", "c", "i", "n", "e">>
autism == <<"a", "u", "t", "i", "s", "m">>
lemon == <<"l", "e", "m", "o", "n">>
fetchWord == <<"f", "e", "t", "c", "h">>
\* 'Verification failed' (api.ts 38), 'Failed to fetch news' (newsApi.ts 18)
VerificationFailed == <<"V", "e", "r", "i", "f", "i", "c", "a", "t", "i", "o", "n", " ", "f", "a", "i", "l", "e", "d">>
FailedToFetchNews == <<"F", "a", "i", "l", "e", "d", " ", "t", "o", " ", "f", "e", "t", "c", "h", " ", "n", "e", "w", "s">>

\* ------------------------------------------------------------ the network
\* What fetch rejects with when the endpoint cannot be reached is a
\* TypeError whose message is the browser's own: 'Failed to fetch'
\* (Chromium), 'NetworkError when attempting to fetch resource.' (Firefox),
\* 'Load failed' (WebKit).
FailedToFetch == <<"F", "a", "i", "l", "e", "d", " ", "t", "o", " ", "f", "e", "t", "c", "h">>
NetworkErrorFetch == <<"N", "e", "t", "w", "o", "r", "k", "E", "r", "r", "o", "r", " ", "w", "h", "e", "n", " ", "a", "t", "t", "e", "m", "p", "t", "i", "n", "g", " ", "t", "o", " ", "f", "e", "t", "c", "h", " ", "r", "e", "s", "o", "u", "r", "c", "e", ".">>
LoadFailed == <<"L", "o", "a", "d", " ", "f", "a", "i", "l", "e", "d">>
ConnectivityMessages == {FailedToFetch, NetworkErrorFetch, LoadFailed}

\* Reading a property of null is a TypeError as well, worded by the engine.
NullReadV8 == <<"C", "a", "n", "n", "o", "t", " ", "r", "e", "a", "d", " ", "p", "r", "o", "p", "e", "r", "t", "i", "e", "s", " ", "o", "f", " ", "n", "u", "l", "l">>
NullReadGecko == <<"e", "r", "r", "o", "r", "D", "a", "t", "a", " ", "i", "s", " ", "n", "u", "l", "l">>
NullReadMessages == {NullReadV8, NullReadGecko}
UnexpectedToken == <<"U", "n", "e", "x", "p", "e", "c", "t", "e", "d", " ", "t", "o", "k", "e", "n">>

JsError(name, message) == [name |-> name, message |-> message]
NoError == JsError("none", <<>>)

\* Messages an error payload of the remote may carry.
RateLimited == <<"R", "a", "t", "e", " ", "l", "i", "m", "i", "t", "e", "d">>
PrefetchQuota == <<"p", "r", "e", "f", "e", "t", "c", "h", " ", "q", "u", "o", "t", "a">>
RemoteMessages == {RateLimited, PrefetchQuota}

\* The VerificationResult fields of an object that has none of them.
NoClientResult ==
  [verdict |-> "none", confidence |-> 0, explanation |-> "none", citations |-> <<>>,
   language |-> "none", model |-> "none", processingTime |-> 0]

\* A response body: JSON of an object (with its members of interest), JSON
\* null, or text that is no JSON. error = <<>> with hasError is the payload
\* {"error": ""}.
Body(kind, hasError, error, hasArticles, articles, result) ==
  [kind |-> kind, hasError |-> hasError, error |-> error,
   hasArticles |-> hasArticles, articles |-> articles, result |-> result]
NotJson == Body("not json", FALSE, <<>>, FALSE, <<>>, NoClientResult)
NullBody == Body("null", FALSE, <<>>, FALSE, <<>>, NoClientResult)
EmptyObject == Body("object", FALSE, <<>>, FALSE, <<>>, NoClientResult)
ErrorPayload(message) == Body("object", TRUE, message, FALSE, <<>>, NoClientResult)
ResultPayload(result) == Body("object", FALSE, <<>>, FALSE, <<>>, result)
ArticlesPayload(articles) == Body("object", FALSE, <<>>, TRUE, articles, NoClientResult)

\* What the network does to one request: fetch rejects, or a response of
\* some status arrives with some body.
Unreachable(message) ==
  [fetch |-> "rejects", error |-> JsError("TypeError", message), ok |-> FALSE, body |-> NotJson]
Responds(ok, body) ==
  [fetch |-> "responds", error |-> NoError, ok |-> ok, body |-> body]

\* A settled promise. mock tells whether the value is the client's own
\* fallback. verifyHealthClaim's value is the object it resolves with, as a
\* body; fetchTrustedNews's value is the sequence of articles.
Fulfilled(value, mock) ==
  [state |-> "fulfilled", value |-> value, error |-> NoError, mock |-> mock]
Rejected(error) ==
  [state |-> "rejected", value |-> NullBody, error |-> error, mock |-> FALSE]

\* Math.random() in thousandths: the draws the model lets it return.
RandomDraws == {0, 501, 999}
\* Math.floor(base + Math.random() * scale)
FloorOf(base, draw, scale) == base + ((draw * scale) \div 1000)

\* ------------------------------------------------- verification client
\* mockCitations, each citation named by its source.
mockCitations == <<"cdc vaccines and autism", "who vaccine safety", "pubmed citrus">>

\* Mutant: the slice may be empty.
CitationsSliceFromNone(rCitations) == SubSeq(mockCitations, 1, FloorOf(0, rCitations, 3))

\* mockCitations.slice(0, Math.floor(1 + Math.random() * 3))
CitationsSlice(rCitations) == SubSeq(mockCitations, 1, FloorOf(1, rCitations, 3))

\* Mutant: the lemon rule is tried first.
getMockVerificationResultLemonFirst(input, rVerdict, rConfidence, rCitations, rTime) ==
  LET lower == toLowerCase(input)
      containsVaccine == includes(lower, vaccine)
      containsLemon == includes(lower, lemon)
      branch == IF containsLemon THEN "lemon"
                ELSE IF containsVaccine /\ includes(lower, autism) THEN "debunked"
                ELSE "general"
  IN  [verdict |-> CASE branch = "debunked" -> "misleading"
                     [] branch = "lemon" -> "needs review"
                     [] OTHER -> IF rVerdict > 500 THEN "true" ELSE "needs review",
       confidence |-> CASE branch = "debunked" -> 95
                        [] branch = "lemon" -> 72
                        [] OTHER -> FloorOf(60, rConfidence, 35),
       explanation |-> branch,
       citations |-> CitationsSlice(rCitations),
       language |-> "English",
       model |-> "BioBERT + GPT-4",
       processingTime |-> (1025 + rTime) \div 50]

\* Mutant: the general confidence is rounded to the nearest integer instead
\* of rounded down.
getMockVerificationResultRounds(input, rVerdict, rConfidence, rCitations, rTime) ==
  LET lower == toLowerCase(input)
      containsVaccine == includes(lower, vaccine)
      containsLemon == includes(lower, lemon)
      branch == IF containsVaccine /\ includes(lower, autism) THEN "debunked"
                ELSE IF containsLemon THEN "lemon"
                ELSE "general"
  IN  [verdict |-> CASE branch = "debunked" -> "misleading"
                     [] branch = "lemon" -> "needs review"
                     [] OTHER -> IF rVerdict > 500 THEN "true" ELSE "needs review",
       confidence |-> CASE branch = "debunked" -> 95
                        [] branch = "lemon" -> 72
                        [] OTHER -> 60 + (((rConfidence * 35) + 500) \div 1000),
       explanation |-> branch,
       citations |-> CitationsSlice(rCitations),
       language |-> "English",
       model |-> "BioBERT + GPT-4",
       processingTime |-> (1025 + rTime) \div 50]

\* getMockVerificationResult, with the values its Math.random() calls
\* return. explanation is named by the rule that chose it; processingTime
\* is (2 + random * 2).toFixed(1), in tenths of a second.
getMockVerificationResult(input, rVerdict, rConfidence, rCitations, rTime) ==
  LET lower == toLowerCase(input)
      containsVaccine == includes(lower, vaccine)
      containsLemon == includes(lower, lemon)
      branch == IF containsVaccine /\ includes(lower, autism) THEN "debunked"
                ELSE IF containsLemon THEN "lemon"
                ELSE "general"
  IN  [verdict |-> CASE branch = "debunked" -> "misleading"
                     [] branch = "lemon" -> "needs review"
                     [] OTHER -> IF rVerdict > 500 THEN "true" ELSE "needs review",
       confidence |-> CASE branch = "debunked" -> 95
                        [] branch = "lemon" -> 72
                        [] OTHER -> FloorOf(60, rConfidence, 35),
       explanation |-> branch,
       citations |-> CitationsSlice(rCitations),
       language |-> "English",
       model |-> "BioBERT + GPT-4",
       processingTime |-> (1025 + rTime) \div 50]

\* await response.json(): the body's value, or the SyntaxError of a body
\* that is no JSON.
ResponseJson(body) ==
  IF body.kind = "not json" THEN Rejected(JsError("SyntaxError", UnexpectedToken))
  ELSE Fulfilled(body, FALSE)

\* Mutant: the message alone decides.
IsBackendUnavailableByMessage(error) == includes(error.message, fetchWord)

\* error instanceof TypeError && error.message.includes('fetch')
IsBackendUnavailable(error) ==
  error.name = "TypeError" /\ includes(error.message, fetchWord)

\* verifyHealthClaim: the try block up to what it returns or throws, then
\* the catch block. nullRead is the engine's wording for reading .error of
\* null.
verifyHealthClaim(input, remote, nullRead, rVerdict, rConfidence, rCitations, rTime) ==
  LET json == ResponseJson(remote.body)
      tried ==
        IF remote.fetch = "rejects" THEN Rejected(remote.error)
        ELSE IF json.state = "rejected" THEN json
        ELSE IF ~remote.ok
          THEN IF remote.body.kind = "null" THEN Rejected(JsError("TypeError", nullRead))
               ELSE IF remote.body.hasError /\ remote.body.error # <<>>
                 THEN Rejected(JsError("Error", remote.body.error))
               ELSE Rejected(JsError("Error", VerificationFailed))
        ELSE Fulfilled(remote.body, FALSE)
  IN  IF tried.state = "fulfilled" THEN tried
      ELSE IF IsBackendUnavailable(tried.error)
        THEN Fulfilled(ResultPayload(getMockVerificationResult(input, rVerdict, rConfidence,
                                                               rCitations, rTime)), TRUE)
      ELSE tried

\* ----------------------------------------------------------- news client
\* mockNewsArticles, each article named by its id.
mockNewsArticles == <<"1", "2", "3", "4", "5">>

\* [...mockNewsArticles].sort(() => 0.5 - Math.random()): the comparator is
\* inconsistent, so the order is whatever the engine's sort makes of it.
Shuffles(articles) ==
  {[i \in 1..Len(articles) |-> articles[p[i]]] :
     p \in {q \in [1..Len(articles) -> 1..Len(articles)] :
              \A i, j \in 1..Len(articles) : i # j => q[i] # q[j]}}

\* Array.prototype.slice(0, end)
SliceTo(items, end) == SubSeq(items, 1, IF end < Len(items) THEN end ELSE Len(items))

\* Mutant: the slice starts from three articles instead of five.
getMockNewsArticlesShort(shuffled, rCount) == SliceTo(shuffled, FloorOf(3, rCount, 3))

\* getMockNewsArticles, with the shuffle's outcome and the value of the
\* slice's Math.random().
getMockNewsArticles(shuffled, rCount) == SliceTo(shuffled, FloorOf(5, rCount, 3))

\* Mutant: a status that is not ok is rethrown to the caller.
fetchTrustedNewsRethrows(remote, nullRead, shuffled, rCount) ==
  IF remote.fetch = "rejects"
    THEN IF IsBackendUnavailable(remote.error)
           THEN Fulfilled(getMockNewsArticles(shuffled, rCount), TRUE)
           ELSE Fulfilled(<<>>, FALSE)
  ELSE IF ~remote.ok THEN Rejected(JsError("Error", FailedToFetchNews))
  ELSE IF remote.body.kind = "object" /\ remote.body.hasArticles /\ remote.body.articles # <<>>
    THEN Fulfilled(remote.body.articles, FALSE)
  ELSE Fulfilled(<<>>, FALSE)

\* fetchTrustedNews. An articles member that is absent or empty-valued
\* (null, '', 0, false) gives [] through `|| []`; an empty array is itself.
fetchTrustedNews(remote, nullRead, shuffled, rCount) ==
  LET json == ResponseJson(remote.body)
      tried ==
        IF remote.fetch = "rejects" THEN Rejected(remote.error)
        ELSE IF ~remote.ok THEN Rejected(JsError("Error", FailedToFetchNews))
        ELSE IF json.state = "rejected" THEN json
        ELSE IF remote.body.kind = "null" THEN Rejected(JsError("TypeError", nullRead))
        ELSE IF remote.body.hasArticles THEN Fulfilled(remote.body.articles, FALSE)
        ELSE Fulfilled(<<>>, FALSE)
  IN  IF tried.state = "fulfilled" THEN tried
      ELSE IF IsBackendUnavailable(tried.error)
        THEN Fulfilled(getMockNewsArticles(shuffled, rCount), TRUE)
      ELSE Fulfilled(<<>>, FALSE)

\* ------------------------------------------------------------------ state
VARIABLES
  pc,             \* "unstarted" | "ready" | "crashed" | "closed": the page's life
  verifications,  \* state.verifications of the last render (after "closed":
                  \* what that session left in memory)
  queue,          \* dispatched actions React has not rendered yet
  storage,        \* localStorage['healthcheck-verifications']
  medium,         \* the storage medium's health
  loaded,         \* what this session's mount effect met in storage
  last,           \* the latest step, when it was a mount, a render or a get
  call,           \* the latest call of a client, its inputs and its outcome
  route,          \* the router's location: [path, id]
  input,          \* LandingPage's input state (the textarea)
  isProcessing,   \* LandingPage's isProcessing state
  requests,       \* handleSubmit calls waiting at `await verifyHealthClaim`
  now,            \* the millisecond clock, Date.now()
  notice,         \* the latest step, when it was a step of the submit flow
  pageVerification, \* ResultsPage's verification state
  news,           \* TrustedNews's news state, with the loadNews call that set it
  isLoading,      \* TrustedNews's isLoading state
  fetches,        \* loadNews calls waiting at `await fetchTrustedNews`
  started         \* how many loadNews calls the panel has made

vars == <<pc, verifications, queue, storage, medium, loaded, last,
          call, route, input, isProcessing, requests, now, notice,
          pageVerification, news, isLoading, fetches, started>>

\* What lives outside the store: the clients and the pages.
panel == <<news, isLoading, fetches, started>>
outside == <<call, route, input, isProcessing, requests, now, pageVerification, panel>>

NoCall == [fn |-> "none"]
\* useState<any>(null) of ResultsPage: no lookup has run.
NotLookedUp == [tag |-> "null", rec |-> NoVerification]
\* useState<NewsArticle[]>([]) of TrustedNews: no loadNews call has set it.
NoNews == [articles |-> <<>>, call |-> 0]
Route(path, id) == [path |-> path, id |-> id]
\* step: "submit" | "settle" | "none"; toast: "error" | "success" | "none";
\* outcome: how verifyHealthClaim settled; index: which of the waiting
\* calls settled; owner: whether the LandingPage that submitted was still
\* mounted, flag: the mounted page's isProcessing before the step; queued,
\* before, stored, routed: the pending dispatches, state.verifications,
\* the stored value and the location before the step.
NoNotice ==
  [step |-> "none", toast |-> "none", outcome |-> "none", index |-> 0,
   owner |-> FALSE, flag |-> FALSE, queued |-> <<>>, before |-> EmptyArr,
   stored |-> Absent, routed |-> Route("/", "")]
\* A step of the store leaves the rest alone.
StoreStep == notice' = NoNotice /\ UNCHANGED outside

\* step: "mount" | "render" | "none"; from: pc before it; before, stored:
\* state.verifications and the stored value before it; applied: the actions
\* it rendered; setItem: "ok" | "threw" | "none" (not called).
NoLast ==
  [step |-> "none", from |-> "none", before |-> EmptyArr, stored |-> Absent,
   applied |-> <<>>, setItem |-> "none"]

Init ==
  /\ pc = "unstarted"
  /\ verifications = EmptyArr
  /\ queue = <<>>
  /\ storage \in InitialPayloads
  /\ medium = "healthy"
  /\ loaded = "none"
  /\ last = NoLast
  /\ call = NoCall
  /\ route = Route("/", "")
  /\ input = ""
  /\ isProcessing = FALSE
  /\ requests = <<>>
  /\ now = 1
  /\ notice = NoNotice
  /\ pageVerification = NotLookedUp
  /\ news = NoNews
  /\ isLoading = TRUE
  /\ fetches = <<>>
  /\ started = 0

\* VerificationProvider mounts: useReducer's initial state, then the two
\* effects in order. The load effect's dispatch waits in the queue; the save
\* effect runs with the initial render's state, the empty array.
Mount ==
  /\ pc \in {"unstarted", "closed"}
  /\ pc' = "ready"
  /\ verifications' = EmptyArr
  /\ queue' = LoadEffect(medium, storage)
  /\ loaded' = LoadOutcome(medium, storage)
  /\ storage' = SaveEffect(medium, storage, EmptyArr)
  /\ last' = [step |-> "mount", from |-> pc, before |-> verifications, stored |-> storage,
              applied |-> <<>>, setItem |-> SetItemOutcome(medium)]
  /\ UNCHANGED medium
  /\ StoreStep

\* The model stops adding when the history would pass maxLen.
RoomToAdd(maxLen) ==
  LET r == ApplyAll(verifications, queue)
  IN  r.ok /\ r.state.kind = "array" => Len(r.state.items) < maxLen

\* dispatch: the action waits for React's next render. maxQueue bounds how
\* many the model lets wait.
\* Mutant: the newest dispatch is rendered first.
EnqueueFirst(action, maxQueue) ==
  /\ pc = "ready"
  /\ Len(queue) < maxQueue
  /\ queue' = <<action>> \o queue
  /\ last' = NoLast
  /\ UNCHANGED <<pc, verifications, storage, medium, loaded>>

Enqueue(action, maxQueue) ==
  /\ pc = "ready"
  /\ Len(queue) < maxQueue
  /\ queue' = Append(queue, action)
  /\ last' = NoLast
  /\ UNCHANGED <<pc, verifications, storage, medium, loaded>>

Dispatch(action, maxQueue) ==
  /\ Enqueue(action, maxQueue)
  /\ StoreStep

addVerification(verification, maxLen, maxQueue) ==
  /\ RoomToAdd(maxLen)
  /\ Dispatch(AddAction(verification), maxQueue)

removeVerification(id, maxQueue) == Dispatch(RemoveAction(id), maxQueue)

clearHistory(maxQueue) == Dispatch(ClearAction, maxQueue)

\* React renders: the reducer runs over the pending actions, the new state
\* is committed and the save effect runs, since every action gives
\* state.verifications a new identity. A reducer that throws takes the whole
\* tree down (there is no error boundary) and no effect runs.
Render ==
  /\ pc = "ready"
  /\ queue # <<>>
  /\ LET r == ApplyAll(verifications, queue)
     IN  IF r.ok
           THEN /\ verifications' = r.state
                /\ storage' = IF DepsChanged(verifications, r.state)
                                THEN SaveEffect(medium, storage, r.state) ELSE storage
                /\ pc' = "ready"
                /\ last' = [step |-> "render", from |-> pc, before |-> verifications,
                            stored |-> storage, applied |-> queue,
                            setItem |-> IF DepsChanged(verifications, r.state)
                                          THEN SetItemOutcome(medium) ELSE "none"]
           ELSE /\ pc' = "crashed"
                /\ last' = [step |-> "render", from |-> pc, before |-> verifications,
                            stored |-> storage, applied |-> queue, setItem |-> "none"]
                /\ UNCHANGED <<verifications, storage>>
  /\ queue' = <<>>
  /\ UNCHANGED <<medium, loaded>>
  /\ StoreStep

Reverse(seq) == [i \in 1..Len(seq) |-> seq[Len(seq) + 1 - i]]

\* A component calls getVerification(id): find over the current render's
\* state.verifications, no dispatch and no storage access. On a value that
\* is no array, find is no function and the throw takes the tree down.
getVerificationCall(id) ==
  /\ pc = "ready"
  /\ pc' = IF getVerification(verifications, id).tag = "throws" THEN "crashed" ELSE pc
  /\ last' = [step |-> "get", from |-> pc, before |-> verifications, stored |-> storage,
              applied |-> <<>>, setItem |-> "none"]
  /\ UNCHANGED <<verifications, queue, storage, medium, loaded>>
  /\ StoreStep

\* The tab is closed or reloaded: memory goes, storage stays.
EndSession ==
  /\ pc \in {"ready", "crashed"}
  /\ pc' = "closed"
  /\ queue' = <<>>
  /\ loaded' = "none"
  /\ last' = NoLast
  /\ UNCHANGED <<verifications, storage, medium>>
  /\ StoreStep

\* The environment: the medium fails or recovers.
MediumChange(m) ==
  /\ m # medium
  /\ medium' = m
  /\ last' = NoLast
  /\ UNCHANGED <<pc, verifications, queue, storage, loaded>>
  /\ StoreStep

\* Every behaviour of the store, storage failures included, over two records.
Next ==
  \/ Mount
  \/ \E verification \in FaultRecords : addVerification(verification, FaultMaxLen, FaultMaxQueue)
  \/ \E id \in Ids : removeVerification(id, FaultMaxQueue)
  \/ clearHistory(FaultMaxQueue)
  \/ Render
  \/ EndSession
  \/ \E m \in Media : MediumChange(m)

Spec == Init /\ [][Next]_vars

\* The same behaviours over a single record, for the properties of whole
\* executions. React renders what was dispatched, sooner or later, while the
\* page lives: weak fairness on Render. Nothing obliges the user or the
\* medium to act.
FairNext ==
  \/ Mount
  \/ \E verification \in LiveRecords : addVerification(verification, FaultMaxLen, FaultMaxQueue)
  \/ \E id \in Ids : removeVerification(id, FaultMaxQueue)
  \/ clearHistory(FaultMaxQueue)
  \/ Render
  \/ EndSession
  \/ \E m \in Media : MediumChange(m)

FairSpec == Init /\ [][FairNext]_vars /\ WF_vars(Render)

\* The store on a medium that never fails, over longer histories, records
\* that share an id and several dispatches per render.
HealthyNext ==
  \/ Mount
  \/ \E verification \in Records : addVerification(verification, MaxLen, MaxQueue)
  \/ \E id \in SharedIds : removeVerification(id, MaxQueue)
  \/ clearHistory(MaxQueue)
  \/ Render
  \/ EndSession

HealthySpec == Init /\ [][HealthyNext]_vars

\* The healthy store with its readers: components look records up between
\* the renders. One dispatch per render keeps the longer histories cheap.
FrameNext ==
  \/ Mount
  \/ \E verification \in Records : addVerification(verification, MaxLen, FaultMaxQueue)
  \/ \E id \in SharedIds : removeVerification(id, FaultMaxQueue)
  \/ clearHistory(FaultMaxQueue)
  \/ \E id \in SharedIds : getVerificationCall(id)
  \/ Render
  \/ EndSession

FrameSpec == Init /\ [][FrameNext]_vars

\* ------------------------------------------------------- the clients alone
\* Pieces of claims: the keywords in several cases, whole and cut in two.
TextVaccines == <<"V", "a", "c", "c", "i", "n", "e", "s", " ">>
TextAUTISM == <<"A", "U", "T", "I", "S", "M", " ">>
TextLeMon == <<"L", "e", "M", "o", "n">>
TextLemo == <<"l", "e", "m", "o">>
TextNTea == <<"n", " ", "t", "e", "a">>
Fragments == {<<>>, TextVaccines, TextAUTISM, TextLeMon, TextLemo, TextNTea}
\* The claims the verification client is called with.
ClaimTexts == {a \o b \o c : a, b, c \in Fragments}

\* A result of the remote verifier.
RemoteResult ==
  [verdict |-> "true", confidence |-> 90, explanation |-> "remote", citations |-> <<>>,
   language |-> "English", model |-> "remote", processingTime |-> 12]

\* What the network may do to a request to /api/verify.
VerifyRemotes ==
  {Unreachable(m) : m \in ConnectivityMessages}
    \cup {Responds(TRUE, b) : b \in {ResultPayload(RemoteResult), NullBody, NotJson}}
    \cup {Responds(FALSE, b) :
            b \in {ErrorPayload(m) : m \in RemoteMessages \cup {<<>>}}
                    \cup {EmptyObject, NullBody, NotJson}}

\* What the network may do to a request to /api/news.
NewsRemotes ==
  {Unreachable(m) : m \in ConnectivityMessages}
    \cup {Responds(TRUE, b) :
            b \in {ArticlesPayload(<<"a1", "a2">>), ArticlesPayload(<<>>),
                   EmptyObject, NullBody, NotJson}}
    \cup {Responds(FALSE, b) : b \in {ArticlesPayload(<<"a1", "a2">>), EmptyObject, NotJson}}

\* Math.random() is called on the fallback path only, and null is read on
\* a null body only.
DrawsFor(remote) == IF remote.fetch = "rejects" THEN RandomDraws ELSE {0}
NullReadsFor(remote) ==
  IF remote.fetch = "responds" /\ remote.body.kind = "null" THEN NullReadMessages
  ELSE {NullReadV8}

\* A caller awaits verifyHealthClaim(input).
verifyHealthClaimCall(text, remote, nullRead, rVerdict, rConfidence, rCitations, rTime) ==
  /\ call' = [fn |-> "verifyHealthClaim", input |-> text, remote |-> remote,
              outcome |-> verifyHealthClaim(text, remote, nullRead,
                                            rVerdict, rConfidence, rCitations, rTime)]
  /\ UNCHANGED <<pc, verifications, queue, storage, medium, loaded, last,
                 route, input, isProcessing, requests, now, notice,
                 pageVerification, panel>>

\* A caller awaits fetchTrustedNews().
fetchTrustedNewsCall(remote, nullRead, shuffled, rCount) ==
  /\ call' = [fn |-> "fetchTrustedNews", input |-> <<>>, remote |-> remote,
              outcome |-> fetchTrustedNews(remote, nullRead, shuffled, rCount)]
  /\ UNCHANGED <<pc, verifications, queue, storage, medium, loaded, last,
                 route, input, isProcessing, requests, now, notice,
                 pageVerification, panel>>

ClientInit == Init /\ storage = Absent

\* One call of a client, over every claim text, every behaviour of the
\* network and every draw of Math.random().
ClientNext ==
  \/ /\ call = NoCall
     /\ \E text \in ClaimTexts, remote \in VerifyRemotes :
          \E nullRead \in NullReadsFor(remote) :
            \E rVerdict, rConfidence, rCitations, rTime \in DrawsFor(remote) :
              verifyHealthClaimCall(text, remote, nullRead,
                                    rVerdict, rConfidence, rCitations, rTime)
  \/ /\ call = NoCall
     /\ \E remote \in NewsRemotes :
          \E nullRead \in NullReadsFor(remote), rCount \in DrawsFor(remote) :
            \E shuffled \in (IF remote.fetch = "rejects"
                               THEN Shuffles(mockNewsArticles) ELSE {mockNewsArticles}) :
              fetchTrustedNewsCall(remote, nullRead, shuffled, rCount)

ClientSpec == ClientInit /\ [][ClientNext]_vars

\* ------------------------------------------------------ verdict consumers
\* The verdict strings a record may carry, as the characters the pages
\* inspect: the three categories in several spellings, and other strings.
VerdictTrue == <<"t", "r", "u", "e">>
VerdictMisleading == <<"m", "i", "s", "l", "e", "a", "d", "i", "n", "g">>
VerdictNeedsReview == <<"n", "e", "e", "d", "s", " ", "r", "e", "v", "i", "e", "w">>
VerdictTexts ==
  {VerdictTrue, <<"T", "R", "U", "E">>, VerdictMisleading, <<"M", "i", "s", "l", "e", "a", "d", "i", "n", "g">>,
   VerdictNeedsReview, <<"N", "e", "e", "d", "s", " ", "R", "e", "v", "i", "e", "w">>, <<"n", "e", "e", "d", "s", "-", "r", "e", "v", "i", "e", "w">>,
   <<"u", "n", "c", "e", "r", "t", "a", "i", "n">>, <<"f", "a", "l", "s", "e">>, <<>>}

\* The labels of getVerdictConfig.
VerifiedTrueLabel == "Verified True"
MisleadingLabel == "Misleading"
NeedsReviewLabel == "Needs Review"

\* HistoryPage's getVerdictConfig: switch (verdict.toLowerCase()).
getVerdictConfigHistory(verdict) ==
  CASE toLowerCase(verdict) = VerdictTrue -> VerifiedTrueLabel
    [] toLowerCase(verdict) = VerdictMisleading -> MisleadingLabel
    [] OTHER -> NeedsReviewLabel

\* ResultsPage's getVerdictConfig: switch (verdict.toLowerCase()).
getVerdictConfigResults(verdict) ==
  CASE toLowerCase(verdict) = VerdictTrue -> VerifiedTrueLabel
    [] toLowerCase(verdict) = VerdictMisleading -> MisleadingLabel
    [] OTHER -> NeedsReviewLabel

\* ConfidenceBar's getConfidenceColor.
getConfidenceColor(confidence, verdict) ==
  IF confidence >= 80
    THEN IF toLowerCase(verdict) = VerdictTrue THEN "bg-green-500"
         ELSE IF toLowerCase(verdict) = VerdictMisleading THEN "bg-red-500"
         ELSE "bg-amber-500"
  ELSE IF confidence >= 60 THEN "bg-yellow-500"
  ELSE "bg-gray-500"

\* The values of HistoryPage's filter state.
FilterAll == <<"a", "l", "l">>
FilterTrue == <<"t", "r", "u", "e">>
FilterMisleading == <<"m", "i", "s", "l", "e", "a", "d", "i", "n", "g">>
FilterNeedsReview == <<"n", "e", "e", "d", "s", "-", "r", "e", "v", "i", "e", "w">>
Filters == {FilterAll, FilterTrue, FilterMisleading, FilterNeedsReview}

\* String.prototype.replace(from, to) with a one-character pattern: the
\* first occurrence only.
replace(s, from, to) ==
  IF \E i \in 1..Len(s) : s[i] = from
    THEN LET first == CHOOSE i \in 1..Len(s) :
                        s[i] = from /\ \A j \in 1..(i - 1) : s[j] # from
         IN  [i \in 1..Len(s) |-> IF i = first THEN to ELSE s[i]]
  ELSE s

\* HistoryPage's matchesFilter.
matchesFilter(filter, verdict) ==
  \/ filter = FilterAll
  \/ toLowerCase(verdict) = replace(filter, "-", " ")

\* HistoryPage's matchesSearch.
matchesSearch(searchTerm, text, explanation) ==
  \/ searchTerm = <<>>
  \/ includes(toLowerCase(text), toLowerCase(searchTerm))
  \/ includes(toLowerCase(explanation), toLowerCase(searchTerm))

\* The search terms typed into the History page, and the input and the
\* explanation of the record shown.
SearchTerms == {<<>>, <<"L", "E", "M">>, <<"t", "e", "a">>}
ShownInput == <<"L", "e", "m", "o", "n", " ", "w", "a", "t", "e", "r">>
ShownExplanation == <<"l", "i", "m", "i", "t", "e", "d", " ", "e", "v", "i", "d", "e", "n", "c", "e">>
Confidences == {50, 72, 90}

\* The pages render one record: the History page under a filter and a
\* search term (filteredVerifications, then the card's label), the Results
\* page with its label and its confidence bar.
ShowRecord(verdict, confidence, filter, searchTerm) ==
  /\ call' = [fn |-> "ShowRecord", verdict |-> verdict, confidence |-> confidence,
              filter |-> filter, searchTerm |-> searchTerm,
              listed |-> /\ matchesFilter(filter, verdict)
                         /\ matchesSearch(searchTerm, ShownInput, ShownExplanation),
              historyLabel |-> getVerdictConfigHistory(verdict),
              resultsLabel |-> getVerdictConfigResults(verdict),
              color |-> getConfidenceColor(confidence, verdict)]
  /\ UNCHANGED <<pc, verifications, queue, storage, medium, loaded, last,
                 route, input, isProcessing, requests, now, notice,
                 pageVerification, panel>>

\* One record shown, over every verdict string, confidence, filter and
\* search term.
ViewNext ==
  /\ call = NoCall
  /\ \E verdict \in VerdictTexts, confidence \in Confidences,
        filter \in Filters, searchTerm \in SearchTerms :
       ShowRecord(verdict, confidence, filter, searchTerm)

ViewSpec == ClientInit /\ [][ViewNext]_vars

\* -------------------------------------------------------- the submit flow
\* Most handleSubmit calls the model lets wait for their verification.
MaxRequests == 2
\* The last millisecond of the model's clock.
MaxNow == 3

\* What the textarea may hold, and the characters of each value.
FlowInputs == {"", " ", "claim A"}
Text(s) ==
  CASE s = "" -> <<>>
    [] s = " " -> <<" ">>
    [] s = "claim A" -> <<"c", "l", "a", "i", "m", " ", "A">>
    [] s = "claim B" -> <<"c", "l", "a", "i", "m", " ", "B">>

\* Date.now().toString() and new Date().toISOString() at each millisecond
\* of the model's clock.
NowString == <<"1", "2", "3", "4">>
NowISOString ==
  <<"2024-01-01T00:00:00Z", "2024-01-02T00:00:00Z", "2024-01-03T00:00:00Z",
    "2024-01-04T00:00:00Z">>

\* What the network does to the flow's requests: a result, an application
\* error, a connectivity failure the client does not recognise.
FlowRemotes ==
  {Responds(TRUE, ResultPayload(RemoteResult)),
   Responds(FALSE, ErrorPayload(RateLimited)),
   Unreachable(LoadFailed)}

\* The result as the store's records carry it.
NumberToString(n) == CASE n = 90 -> "90" [] n = 72 -> "72" [] n = 95 -> "95"
StoredResult(result) ==
  MkResult(Str(result.verdict), Num(NumberToString(result.confidence)), Str(result.language))

\* A waiting call: the input it closed over, whether its page is still
\* mounted, and whether the request was sent in the current millisecond.
Request(text, owner, fresh) == [input |-> text, owner |-> owner, fresh |-> fresh]
\* LandingPage unmounts: its state is gone and the calls it has waiting
\* belong to no mounted page.
Orphaned(reqs) == [i \in 1..Len(reqs) |-> Request(reqs[i].input, FALSE, reqs[i].fresh)]
\* A millisecond later no waiting request is of the current millisecond.
Aged(reqs) == [i \in 1..Len(reqs) |-> Request(reqs[i].input, reqs[i].owner, FALSE)]
Without(reqs, i) == SubSeq(reqs, 1, i - 1) \o SubSeq(reqs, i + 1, Len(reqs))

\* onChange of the textarea, which is disabled while isProcessing.
setInput(text) ==
  /\ pc = "ready"
  /\ route.path = "/"
  /\ ~isProcessing
  /\ text # input
  /\ input' = text
  /\ notice' = NoNotice
  /\ last' = NoLast
  /\ UNCHANGED <<pc, verifications, queue, storage, medium, loaded,
                 call, route, isProcessing, requests, now, pageVerification, panel>>

\* Mutant: the input is tested without trim, so only the empty string is
\* refused.
handleSubmitUntrimmed ==
  /\ pc = "ready"
  /\ route.path = "/"
  /\ ~isProcessing
  /\ IF Text(input) = <<>>
       THEN /\ notice' = [NoNotice EXCEPT !.step = "submit", !.toast = "error",
                                          !.queued = queue, !.before = verifications,
                                          !.stored = storage, !.routed = route]
            /\ UNCHANGED <<isProcessing, requests>>
       ELSE /\ Len(requests) < MaxRequests
            /\ isProcessing' = TRUE
            /\ requests' = Append(requests, Request(input, TRUE, TRUE))
            /\ notice' = [NoNotice EXCEPT !.step = "submit", !.queued = queue,
                                          !.before = verifications,
                                          !.stored = storage, !.routed = route]
  /\ last' = NoLast
  /\ UNCHANGED <<pc, verifications, queue, storage, medium, loaded,
                 call, route, input, now, pageVerification, panel>>

\* handleSubmit up to its await: the submit button is disabled while
\* isProcessing. A blank input is answered with an error toast; any other
\* sets isProcessing and calls verifyHealthClaim.
handleSubmit ==
  /\ pc = "ready"
  /\ route.path = "/"
  /\ ~isProcessing
  /\ IF trim(Text(input)) = <<>>
       THEN /\ notice' = [NoNotice EXCEPT !.step = "submit", !.toast = "error",
                                          !.queued = queue, !.before = verifications,
                                          !.stored = storage, !.routed = route]
            /\ UNCHANGED <<isProcessing, requests>>
       ELSE /\ Len(requests) < MaxRequests
            /\ isProcessing' = TRUE
            /\ requests' = Append(requests, Request(input, TRUE, TRUE))
            /\ notice' = [NoNotice EXCEPT !.step = "submit", !.queued = queue,
                                          !.before = verifications,
                                          !.stored = storage, !.routed = route]
  /\ last' = NoLast
  /\ UNCHANGED <<pc, verifications, queue, storage, medium, loaded,
                 call, route, input, now, pageVerification, panel>>

\* Mutant: there is no finally block.
FinallyMissing(owner, flag) == flag

\* finally { setIsProcessing(false) }: the state of the page that
\* submitted; a page that is gone has no state to set.
Finally(owner, flag) == IF owner THEN FALSE ELSE flag

\* handleSubmit from its await on, for the i-th waiting call, no sooner
\* than a millisecond after the request was sent: the record is built with
\* the clock's value at that moment, added, and the router sent to its
\* page, which unmounts LandingPage; a rejection is answered with an error
\* toast; either way isProcessing of the page that submitted is reset.
Settle(i, remote, maxLen, maxQueue) ==
  LET req == requests[i]
      outcome == verifyHealthClaim(Text(req.input), remote, NullReadV8, 0, 0, 0, 0)
      verification ==
        MkVerification(Str(NowString[now]), Str(req.input),
                       StoredResult(outcome.value.result), Str(NowISOString[now]))
      seen == [step |-> "settle", toast |-> "none", outcome |-> outcome.state,
               index |-> i, owner |-> req.owner, flag |-> isProcessing,
               queued |-> queue, before |-> verifications, stored |-> storage,
               routed |-> route]
  IN  /\ ~req.fresh
      /\ IF outcome.state = "fulfilled"
           THEN /\ RoomToAdd(maxLen)
                /\ Enqueue(AddAction(verification), maxQueue)
                /\ route' = Route("/results", NowString[now])
                /\ pageVerification' = IF route.path = "/results" THEN pageVerification
                                       ELSE NotLookedUp
                /\ input' = IF route.path = "/" THEN "" ELSE input
                /\ isProcessing' = IF route.path = "/" THEN FALSE
                                   ELSE Finally(req.owner, isProcessing)
                /\ requests' = IF route.path = "/" THEN Orphaned(Without(requests, i))
                               ELSE Without(requests, i)
                /\ notice' = [seen EXCEPT !.toast = "success"]
           ELSE /\ requests' = Without(requests, i)
                /\ isProcessing' = Finally(req.owner, isProcessing)
                /\ notice' = [seen EXCEPT !.toast = "error"]
                /\ last' = NoLast
                /\ UNCHANGED <<pc, verifications, queue, storage, medium, loaded,
                               route, input, pageVerification>>
      /\ UNCHANGED <<call, now, panel>>

\* The user follows a link or the browser's history to another page.
Navigate(path) ==
  /\ pc = "ready"
  /\ route.path # path
  /\ route' = Route(path, "")
  /\ input' = ""
  /\ isProcessing' = FALSE
  /\ requests' = IF route.path = "/" THEN Orphaned(requests) ELSE requests
  /\ pageVerification' = NotLookedUp
  /\ notice' = NoNotice
  /\ last' = NoLast
  /\ UNCHANGED <<pc, verifications, queue, storage, medium, loaded, call, now, panel>>

\* A millisecond passes.
Tick ==
  /\ now < MaxNow
  /\ now' = now + 1
  /\ requests' = Aged(requests)
  /\ notice' = NoNotice
  /\ last' = NoLast
  /\ UNCHANGED <<pc, verifications, queue, storage, medium, loaded,
                 call, route, input, isProcessing, pageVerification, panel>>

\* The page after VerificationProvider mounted on an empty localStorage and
\* the router rendered LandingPage.
FlowInit ==
  /\ pc = "ready"
  /\ verifications = EmptyArr
  /\ queue = LoadEffect("healthy", Absent)
  /\ storage = SaveEffect("healthy", Absent, EmptyArr)
  /\ medium = "healthy"
  /\ loaded = LoadOutcome("healthy", Absent)
  /\ last = NoLast
  /\ call = NoCall
  /\ route = Route("/", "")
  /\ input = ""
  /\ isProcessing = FALSE
  /\ requests = <<>>
  /\ now = 1
  /\ notice = NoNotice
  /\ pageVerification = NotLookedUp
  /\ news = NoNews
  /\ isLoading = TRUE
  /\ fetches = <<>>
  /\ started = 0

\* The pages and the store together, on a healthy medium.
FlowNext ==
  \/ \E text \in FlowInputs : setInput(text)
  \/ handleSubmit
  \/ \E i \in 1..Len(requests), remote \in FlowRemotes :
       Settle(i, remote, FaultMaxLen, MaxQueue)
  \/ \E path \in {"/", "/history"} : Navigate(path)
  \/ Tick
  \/ \E id \in {Str("1")} : removeVerification(id, MaxQueue)
  \/ clearHistory(MaxQueue)
  \/ Render

FlowSpec == FlowInit /\ [][FlowNext]_vars

\* ------------------------------------------------------- the results page
\* ResultsPage's effect: getVerification(id) of the current render goes
\* into the page's state. It runs after the page mounted and after every
\* render of the provider, which makes a new getVerification; a run that
\* finds what the page already holds changes nothing. On a value that is no
\* array the throw takes the tree down.
LookupEffect ==
  /\ pc = "ready"
  /\ route.path = "/results"
  /\ LET found == getVerification(verifications, Str(route.id))
     IN  /\ found # pageVerification
         /\ IF found.tag = "throws"
              THEN pc' = "crashed" /\ UNCHANGED pageVerification
              ELSE pc' = pc /\ pageVerification' = found
  /\ last' = NoLast
  /\ notice' = NoNotice
  /\ UNCHANGED <<verifications, queue, storage, medium, loaded,
                 call, route, input, isProcessing, requests, now, panel>>

\* React runs the effects of a commit before it renders again.
RenderAfterEffects ==
  /\ ~(/\ route.path = "/results"
       /\ getVerification(verifications, Str(route.id)) # pageVerification)
  /\ Render

\* The claims typed in the sessions that end on the results page.
ResultsInputs == {"claim A", "claim B"}

\* A session starts on the landing page or on the results page of an id,
\* with nothing stored or with the record of an earlier session.
ResultsInit ==
  /\ pc = "unstarted"
  /\ verifications = EmptyArr
  /\ queue = <<>>
  /\ storage \in {Absent, Stored(JSONStringify(Arr(<<RecA>>)))}
  /\ medium = "healthy"
  /\ loaded = "none"
  /\ last = NoLast
  /\ call = NoCall
  /\ route \in {Route("/", ""), Route("/results", "1"), Route("/results", "3")}
  /\ input = ""
  /\ isProcessing = FALSE
  /\ requests = <<>>
  /\ now = 1
  /\ notice = NoNotice
  /\ pageVerification = NotLookedUp
  /\ news = NoNews
  /\ isLoading = TRUE
  /\ fetches = <<>>
  /\ started = 0

\* The submit flow up to the results page, on a backend that answers.
ResultsNext ==
  \/ Mount
  \/ \E text \in ResultsInputs : setInput(text)
  \/ handleSubmit
  \/ \E i \in 1..Len(requests) :
       Settle(i, Responds(TRUE, ResultPayload(RemoteResult)), FaultMaxLen, MaxQueue)
  \/ \E path \in {"/", "/history"} : Navigate(path)
  \/ Tick
  \/ RenderAfterEffects
  \/ LookupEffect

\* React renders what was dispatched and runs the effects of what it
\* rendered.
ResultsSpec ==
  ResultsInit /\ [][ResultsNext]_vars
    /\ WF_vars(RenderAfterEffects) /\ WF_vars(LookupEffect)

\* --------------------------------------------------------- the news panel
\* Most loadNews calls the model lets wait for their fetch, and most calls
\* it lets the panel make.
MaxFetches == 2
MaxStarted == 4

\* What the panel leaves alone.
offPanel == <<pc, verifications, queue, storage, medium, loaded, last, call, route,
              input, isProcessing, requests, now, notice, pageVerification>>

\* loadNews up to its await: setIsLoading(true), then fetchTrustedNews().
\* The calls are numbered in the order they are made, and each is kept
\* with what made it.
loadNews(by) ==
  /\ started < MaxStarted
  /\ Len(fetches) < MaxFetches
  /\ isLoading' = TRUE
  /\ started' = started + 1
  /\ fetches' = Append(fetches, [call |-> started + 1, by |-> by])
  /\ UNCHANGED news
  /\ UNCHANGED offPanel

\* The panel's effect on mount: the first loadNews (and setInterval).
InitialLoad ==
  /\ route.path = "/"
  /\ started = 0
  /\ loadNews("mount")

\* The interval fires: setInterval(loadNews, 5 * 60 * 1000), whatever the
\* panel is doing.
AutoRefresh ==
  /\ route.path = "/"
  /\ started > 0
  /\ loadNews("interval")

\* handleRefresh: the button is disabled while isLoading.
handleRefresh ==
  /\ route.path = "/"
  /\ started > 0
  /\ ~isLoading
  /\ loadNews("button")

\* What the network does to the panel's requests, and the orders the
\* fallback's shuffle may give.
PanelRemotes ==
  {Responds(TRUE, ArticlesPayload(<<"a1", "a2">>)),
   Responds(TRUE, ArticlesPayload(<<"a3">>)),
   Responds(FALSE, EmptyObject),
   Unreachable(FailedToFetch)}
PanelShuffles == {mockNewsArticles, Reverse(mockNewsArticles)}

\* loadNews from its await on, for the i-th waiting call: setNews with the
\* articles (a rejection is logged and leaves news alone), and
\* setIsLoading(false) in the finally block.
loadNewsSettles(i, remote, shuffled) ==
  LET outcome == fetchTrustedNews(remote, NullReadV8, shuffled, 0)
  IN  /\ news' = IF outcome.state = "fulfilled"
                   THEN [articles |-> outcome.value, call |-> fetches[i].call]
                   ELSE news
      /\ isLoading' = FALSE
      /\ fetches' = Without(fetches, i)
      /\ UNCHANGED started
      /\ UNCHANGED offPanel

\* The panel on the landing page, with the network answering its fetches
\* in any order.
NewsNext ==
  \/ InitialLoad
  \/ AutoRefresh
  \/ handleRefresh
  \/ \E i \in 1..Len(fetches), remote \in PanelRemotes, shuffled \in PanelShuffles :
       loadNewsSettles(i, remote, shuffled)

NewsSpec == FlowInit /\ [][NewsNext]_vars

\* ----------------------------------------------------------------- claims
IdsOf(items) == {items[i].id : i \in 1..Len(items)}
DistinctIds(items) ==
  \A i, j \in 1..Len(items) : i # j => items[i].id # items[j].id
IsAdds(actions) == \A i \in 1..Len(actions) : actions[i].type = "ADD_VERIFICATION"
AddedRecords(actions) == [i \in 1..Len(actions) |-> actions[i].rec]
Found(rec) == [tag |-> "found", rec |-> rec]
NotFound == [tag |-> "undefined", rec |-> NoVerification]

\* The latest step was a render that committed.
Rendered == last.step = "render" /\ pc = "ready"
\* The stored value is the serialization of the in-memory collection.
Consistent == storage = Stored(JSONStringify(verifications))

\* C1: add calls with pairwise distinct ids, rendered onto a collection of
\* distinct ids that holds none of them (the empty collection first of all),
\* leave the collection equal to the added records, newest first, followed
\* by what was there, and get(id) returns exactly the record of that id, for
\* every id in the collection. By induction over the renders this is the
\* claim for every sequence of such adds from the empty collection.
C1_AddsNewestFirst ==
  ( /\ Rendered
    /\ last.before.kind = "array"
    /\ IsAdds(last.applied)
    /\ DistinctIds(AddedRecords(last.applied) \o last.before.items) )
  => /\ verifications = Arr(Reverse(AddedRecords(last.applied)) \o last.before.items)
     /\ \A i \in 1..Len(verifications.items) :
          getVerification(verifications, verifications.items[i].id)
            = Found(verifications.items[i])

\* Three adds with distinct ids, the last two in one render, from empty.
C1_Witness ==
  /\ Rendered
  /\ last.before = Arr(<<RecA>>)
  /\ last.applied = <<AddAction(RecB), AddAction(RecC)>>
  /\ verifications = Arr(<<RecC, RecB, RecA>>)

\* C2: on a medium that never fails, what a session leaves in memory is
\* what the stored text deserializes to once the session is over, and the
\* next session's mount dispatches a load that renders to that same
\* collection, order and field values included.
C2_RoundTrip ==
  /\ pc = "closed" =>
       /\ storage.present
       /\ JSONParse(storage.text) = [ok |-> TRUE, val |-> verifications]
  /\ (last.step = "mount" /\ last.from = "closed") =>
       ApplyAll(verifications, queue) = Returned(last.before)
  /\ (Rendered /\ Len(last.applied) = 1 /\ last.applied[1].type = "LOAD_FROM_STORAGE") =>
       verifications = last.applied[1].payload

\* A session that left three records, one without result.language, is
\* followed by a mount.
C2_Witness ==
  /\ last.step = "mount"
  /\ last.from = "closed"
  /\ last.before = Arr(<<RecB, RecA2, RecA>>)
  /\ queue # <<>>

\* C3: right after a mount or a render on a healthy medium the stored value
\* is the serialization of the whole in-memory collection, and parses back
\* to it.
C3_PersistsWholeCollection ==
  (last.step \in {"mount", "render"} /\ pc = "ready" /\ medium = "healthy")
  => /\ Consistent
     /\ JSONParse(storage.text) = [ok |-> TRUE, val |-> verifications]

\* An add rendered onto a non-empty collection whose stored copy was stale.
C3_Witness ==
  /\ Rendered
  /\ medium = "healthy"
  /\ last.before = Arr(<<RecA>>)
  /\ last.applied = <<AddAction(RecB)>>
  /\ last.stored # Stored(JSONStringify(last.before))
  /\ verifications = Arr(<<RecB, RecA>>)

\* C4: a session whose mount effect met text that does not parse, or parses
\* to something that is no array, goes on with an array in memory (the empty
\* one, nothing is dispatched by the mount) and never crashes.
C4_BadPayloadLeavesEmpty ==
  (pc \in {"ready", "crashed"} /\ loaded \in {"malformed", "wrong schema"})
  => /\ pc = "ready"
     /\ verifications.kind = "array"
     /\ last.step = "mount" => (queue = <<>> /\ verifications = EmptyArr)

\* C5: while every access to the medium throws, each mount, the first and
\* every later one, leaves the empty collection with nothing dispatched and
\* the stored value untouched; a session that mounted so never crashes, and
\* its renders keep applying add, remove and clear to the collection in
\* memory, where get still answers.
C5_UnavailableMedium ==
  /\ (last.step = "mount" /\ medium = "unavailable") =>
       /\ pc = "ready"
       /\ verifications = EmptyArr
       /\ queue = <<>>
       /\ storage = last.stored
  /\ loaded = "unreadable" =>
       /\ pc # "crashed"
       /\ verifications.kind = "array"
  /\ (last.step = "render" /\ medium = "unavailable" /\ loaded = "unreadable") =>
       /\ storage = last.stored
       /\ LET a == last.applied[Len(last.applied)]
          IN  CASE a.type = "ADD_VERIFICATION" ->
                     getVerification(verifications, a.rec.id) = Found(a.rec)
                [] a.type = "REMOVE_VERIFICATION" ->
                     getVerification(verifications, a.id) = NotFound
                [] a.type = "CLEAR_HISTORY" -> verifications = EmptyArr
                [] OTHER -> FALSE

\* A later session mounts on the unavailable medium while the stored value
\* holds a record.
C5_Witness ==
  /\ last.step = "mount"
  /\ last.from = "closed"
  /\ medium = "unavailable"
  /\ storage = Stored(JSONStringify(Arr(<<RecA>>)))

\* C6: a render whose setItem threw leaves the stored value as it was, keeps
\* the rendered collection in memory and commits (no crash).
C6_FailedWriteKeepsBoth ==
  (last.step = "render" /\ last.setItem = "threw")
  => /\ pc = "ready"
     /\ storage = last.stored
     /\ ApplyAll(last.before, last.applied) = Returned(verifications)

\* An add whose write failed: memory has the record, storage the old text.
C6_Witness ==
  /\ last.step = "render"
  /\ last.setItem = "threw"
  /\ last.stored = Stored(JSONStringify(Arr(<<RecA>>)))
  /\ last.applied = <<AddAction(RecB)>>
  /\ verifications = Arr(<<RecB, RecA>>)
  /\ storage = Stored(JSONStringify(Arr(<<RecA>>)))

\* The persisted collection equals the one in memory: the stored text is
\* its serialization, or nothing is stored (which a load reads as empty)
\* and the collection is empty.
PersistedEqualsMemory ==
  IF storage.present
    THEN storage.text = JSONStringify(verifications)
    ELSE verifications = EmptyArr

RECURSIVE RemoveFirst(_, _)
RemoveFirst(items, id) ==
  IF items = <<>> THEN <<>>
  ELSE IF Head(items).id = id THEN Tail(items)
  ELSE <<Head(items)>> \o RemoveFirst(Tail(items), id)

RemoveRendered(id) ==
  /\ Rendered
  /\ last.before.kind = "array"
  /\ last.applied = <<RemoveAction(id)>>

\* C8 as claimed: remove(id) takes out the first record of that id only.
C8_RemovesFirstOnly ==
  \A id \in Ids :
    RemoveRendered(id) => verifications = Arr(RemoveFirst(last.before.items, id))

\* C8: remove(id) takes out every record of that id and no other; the
\* records left keep their order.
C8_RemovesEveryMatch ==
  \A id \in Ids :
    RemoveRendered(id) =>
      verifications = Arr(SelectSeq(last.before.items, LAMBDA v : v.id # id))

\* remove("1") on a collection with two records of id "1" around a third.
C8_Witness ==
  /\ RemoveRendered(Str("1"))
  /\ last.before = Arr(<<RecA2, RecB, RecA>>)
  /\ verifications = Arr(<<RecB>>)

\* C9: once a remove(id) is rendered, as the last of the actions of a
\* render, get(id) returns undefined, however often id was there before.
C9_RemoveThenGetAbsent ==
  \A id \in Ids :
    (Rendered /\ last.applied # <<>> /\ last.applied[Len(last.applied)] = RemoveAction(id))
    => getVerification(verifications, id) = NotFound

\* The removed id was there twice, and a record of another id is left.
C9_Witness ==
  /\ Rendered
  /\ last.applied[Len(last.applied)] = RemoveAction(Str("1"))
  /\ last.before = Arr(<<RecA, RecB, RecA2>>)
  /\ verifications = Arr(<<RecB>>)

\* C10: a remove of an id the collection does not hold commits without a
\* crash, leaves the collection as it was, and still calls setItem with the
\* whole collection: on a healthy medium the stored value is its
\* serialization afterwards, whatever was stored before.
C10_RemoveAbsentStillPersists ==
  \A id \in Ids :
    ( /\ last.step = "render"
      /\ last.before.kind = "array"
      /\ last.applied = <<RemoveAction(id)>>
      /\ id \notin IdsOf(last.before.items) )
    => /\ pc = "ready"
       /\ verifications = last.before
       /\ last.setItem = SetItemOutcome(medium)
       /\ medium = "healthy" => Consistent

\* The absent id is removed while the stored value is stale: the write
\* happens although the collection did not change.
C10_Witness ==
  /\ Rendered
  /\ last.applied = <<RemoveAction(Str("3"))>>
  /\ last.before = Arr(<<RecB, RecA>>)
  /\ verifications = last.before
  /\ medium = "healthy"
  /\ last.stored # storage
  /\ Consistent

\* C11: a render whose last action is a clear, the reducer having reached
\* that clear, commits whatever the state the clear met (a value that is no
\* array included), leaves the empty collection in memory and, the medium
\* being healthy, the text of the empty array in storage; an add of r
\* rendered after the clear, in the same render or as the next one on the
\* empty collection, leaves exactly [r] and get(r.id) returns r.
C11_ClearThenAdd ==
  /\ ( /\ last.step = "render"
       /\ last.applied # <<>>
       /\ last.applied[Len(last.applied)] = ClearAction
       /\ ApplyAll(last.before, SubSeq(last.applied, 1, Len(last.applied) - 1)).ok )
     => /\ pc = "ready"
        /\ verifications = EmptyArr
        /\ storage = Stored(<<P("["), P("]")>>)
  /\ \A r \in Records :
       ( /\ last.step = "render"
         /\ \/ /\ Len(last.applied) >= 2
               /\ SubSeq(last.applied, Len(last.applied) - 1, Len(last.applied))
                    = <<ClearAction, AddAction(r)>>
               /\ ApplyAll(last.before, SubSeq(last.applied, 1, Len(last.applied) - 2)).ok
            \/ /\ last.applied = <<AddAction(r)>>
               /\ last.before = EmptyArr )
       => /\ pc = "ready"
          /\ verifications = Arr(<<r>>)
          /\ getVerification(verifications, r.id) = Found(r)
          /\ Consistent

\* A clear of a two-record history and an add, in one render.
C11_Witness ==
  /\ Rendered
  /\ last.before = Arr(<<RecA2, RecA>>)
  /\ last.applied = <<ClearAction, AddAction(RecB)>>
  /\ verifications = Arr(<<RecB>>)
  /\ getVerification(verifications, RecB.id) = Found(RecB)
  /\ storage = Stored(JSONStringify(Arr(<<RecB>>)))

\* A clear brings a collection that is no array back to the empty one.
C11_WitnessWrongSchema ==
  /\ Rendered
  /\ last.before.kind # "array"
  /\ last.applied = <<ClearAction>>
  /\ verifications = EmptyArr

\* a is b with some elements left out: same records, same relative order.
RECURSIVE IsSubsequence(_, _)
IsSubsequence(a, b) ==
  IF a = <<>> THEN TRUE
  ELSE IF b = <<>> THEN FALSE
  ELSE IF Head(a) = Head(b) THEN IsSubsequence(Tail(a), Tail(b))
  ELSE IsSubsequence(a, Tail(b))

AddedSet(actions) ==
  {actions[i].rec : i \in {j \in 1..Len(actions) : actions[j].type = "ADD_VERIFICATION"}}
RemovedIds(actions) ==
  {actions[i].id : i \in {j \in 1..Len(actions) : actions[j].type = "REMOVE_VERIFICATION"}}
IsRemoves(actions) == \A i \in 1..Len(actions) : actions[i].type = "REMOVE_VERIFICATION"

\* C13: after a committed render of adds, removes and clears on a collection,
\* the collection is some just-added records followed by records of the
\* collection before, each with every field as it was and in the relative
\* order they had. A render of adds keeps every record that was there, after
\* the added ones; a render of removes keeps exactly the records whose id was
\* not removed. A get leaves the in-memory collection and the stored value
\* as they were.
C13_RecordsImmutable ==
  /\ ( /\ Rendered
       /\ last.before.kind = "array"
       /\ \A i \in 1..Len(last.applied) : last.applied[i].type # "LOAD_FROM_STORAGE" )
     => /\ verifications.kind = "array"
        /\ \E k \in 0..Len(verifications.items) :
             /\ \A i \in 1..k : verifications.items[i] \in AddedSet(last.applied)
             /\ IsSubsequence(SubSeq(verifications.items, k + 1, Len(verifications.items)),
                              last.before.items)
        /\ IsAdds(last.applied) =>
             SubSeq(verifications.items, Len(last.applied) + 1, Len(verifications.items))
               = last.before.items
        /\ IsRemoves(last.applied) =>
             verifications.items
               = SelectSeq(last.before.items, LAMBDA v : v.id \notin RemovedIds(last.applied))
  /\ last.step = "get" =>
       /\ verifications = last.before
       /\ storage = last.stored

\* A remove leaves two of three records, in the order they had.
C13_Witness ==
  /\ Rendered
  /\ last.applied = <<RemoveAction(Str("1"))>>
  /\ last.before = Arr(<<RecC, RecA, RecB>>)
  /\ verifications = Arr(<<RecC, RecB>>)

\* A get on a history of two records.
C13_WitnessGet ==
  /\ last.step = "get"
  /\ pc = "ready"
  /\ last.before = Arr(<<RecB, RecA2>>)
  /\ queue # <<>>

\* The latest call was verifyHealthClaim and it resolved with the fallback.
FellBack == call.fn = "verifyHealthClaim" /\ call.outcome.mock
\* The word occurs in the text, whatever the case of each letter.
ContainsAnyCase(text, word) ==
  \E i \in 0..Len(text) :
    /\ i + Len(word) <= Len(text)
    /\ \A k \in 1..Len(word) : toLowerCaseChar(text[i + k]) = word[k]
MentionsVaccineAndAutism(text) ==
  ContainsAnyCase(text, vaccine) /\ ContainsAnyCase(text, autism)

\* C15: whenever verifyHealthClaim resolved with the fallback, an input that
\* contains both "vaccine" and "autism" in any letter case (with or without
\* "lemon") got verdict misleading and confidence 95, and an input that
\* contains "lemon" in any letter case but not both of the others got
\* verdict needs review and confidence 72, whatever Math.random() returned.
C15_KeywordVerdicts ==
  FellBack =>
    LET result == call.outcome.value.result
    IN  /\ MentionsVaccineAndAutism(call.input) =>
             result.verdict = "misleading" /\ result.confidence = 95
        /\ (ContainsAnyCase(call.input, lemon) /\ ~MentionsVaccineAndAutism(call.input)) =>
             result.verdict = "needs review" /\ result.confidence = 72

\* 'Vaccines AUTISM LeMon': all three words, in mixed case.
C15_Witness ==
  /\ FellBack
  /\ call.input = TextVaccines \o TextAUTISM \o TextLeMon
  /\ call.outcome.value.result.verdict = "misleading"
  /\ call.outcome.value.result.confidence = 95

\* 'lemon teaVaccines ': lemon cut over two pieces, vaccine without autism.
C15_WitnessLemon ==
  /\ FellBack
  /\ call.input = TextLemo \o TextNTea \o TextVaccines
  /\ call.outcome.value.result.verdict = "needs review"
  /\ call.outcome.value.result.confidence = 72

\* C16 as stated: the fallback's citations are the first two of the fixed
\* list for an input with "vaccine" and "autism", and one citation for an
\* input with "lemon", the same on every call.
C16_FixedCitations ==
  FellBack =>
    LET result == call.outcome.value.result
    IN  /\ MentionsVaccineAndAutism(call.input) =>
             result.citations = SubSeq(mockCitations, 1, 2)
        /\ (ContainsAnyCase(call.input, lemon) /\ ~MentionsVaccineAndAutism(call.input)) =>
             Len(result.citations) = 1

\* C16: the fallback's citations are a non-empty prefix of the fixed list of
\* three, one to three of them, for every input, the keyword inputs
\* included: how many is drawn anew on every call.
C16_CitationsArePrefix ==
  FellBack =>
    \E n \in 1..Len(mockCitations) :
      call.outcome.value.result.citations = SubSeq(mockCitations, 1, n)

\* A vaccine-and-autism input that got all three citations, the one on
\* citrus fruit included.
C16_Witness ==
  /\ FellBack
  /\ call.input = TextVaccines \o TextAUTISM
  /\ call.outcome.value.result.citations = mockCitations

\* A lemon input that got the two citations on vaccines.
C16_WitnessLemon ==
  /\ FellBack
  /\ call.input = TextLeMon
  /\ call.outcome.value.result.citations = SubSeq(mockCitations, 1, 2)

\* C17 as stated: whenever fetch rejected for want of connectivity,
\* verifyHealthClaim resolved, and with the fallback result.
C17_UnreachableFallsBack ==
  (call.fn = "verifyHealthClaim" /\ call.remote.fetch = "rejects")
  => /\ call.outcome.state = "fulfilled"
     /\ call.outcome.mock

\* C18: whenever the remote answered with a status that is not ok,
\* verifyHealthClaim rejected and did not fall back; the body being a JSON
\* object, the error is an Error whose message is the body's error member,
\* or 'Verification failed' when it has none or an empty one.
C18_ApplicationErrorPropagates ==
  (call.fn = "verifyHealthClaim" /\ call.remote.fetch = "responds" /\ ~call.remote.ok)
  => /\ call.outcome.state = "rejected"
     /\ ~call.outcome.mock
     /\ call.remote.body.kind = "object" =>
          call.outcome.error
            = JsError("Error",
                      IF call.remote.body.hasError /\ call.remote.body.error # <<>>
                        THEN call.remote.body.error ELSE VerificationFailed)

\* The remote's message holds the word the fallback test looks for.
C18_Witness ==
  /\ call.fn = "verifyHealthClaim"
  /\ call.remote = Responds(FALSE, ErrorPayload(PrefetchQuota))
  /\ call.outcome = Rejected(JsError("Error", PrefetchQuota))

\* The payload has no message.
C18_WitnessGeneric ==
  /\ call.fn = "verifyHealthClaim"
  /\ call.remote = Responds(FALSE, EmptyObject)
  /\ call.outcome = Rejected(JsError("Error", VerificationFailed))

\* C20: fetchTrustedNews always resolves. A response that is ok gives its
\* articles member, or the empty sequence when the body has none; a status
\* that is not ok, a body that is no JSON or is null, and a rejection that
\* the fallback test does not take for an unreachable backend give the empty
\* sequence; the fixture articles come only after fetch itself rejected.
C20_NewsNeverFails ==
  call.fn = "fetchTrustedNews" =>
    /\ call.outcome.state = "fulfilled"
    /\ call.outcome.mock => call.remote.fetch = "rejects"
    /\ ~call.outcome.mock =>
         call.outcome.value
           = IF /\ call.remote.fetch = "responds"
                /\ call.remote.ok
                /\ call.remote.body.kind = "object"
                /\ call.remote.body.hasArticles
               THEN call.remote.body.articles
               ELSE <<>>
    /\ call.remote.fetch = "responds" => ~call.outcome.mock

\* A status that is not ok, although the body holds articles.
C20_Witness ==
  /\ call.fn = "fetchTrustedNews"
  /\ call.remote = Responds(FALSE, ArticlesPayload(<<"a1", "a2">>))
  /\ call.outcome = Fulfilled(<<>>, FALSE)

\* The articles of a response that is ok.
C20_WitnessArticles ==
  /\ call.fn = "fetchTrustedNews"
  /\ call.remote.fetch = "responds"
  /\ call.outcome = Fulfilled(<<"a1", "a2">>, FALSE)

\* The fixture after fetch rejected.
C20_WitnessFixture ==
  /\ call.fn = "fetchTrustedNews"
  /\ call.remote = Unreachable(FailedToFetch)
  /\ call.outcome.mock
  /\ Len(call.outcome.value) = Len(mockNewsArticles)

\* C12 as stated: the records of the collection have pairwise distinct ids,
\* the records entering through the submit flow alone, each with the
\* clock's value at the completion of its verification as id.
C12_IdsUnique ==
  verifications.kind = "array" => DistinctIds(verifications.items)

\* The reducer's three mutations, one at a time, as the collection's
\* operations are specified: add puts the record first, remove drops every
\* record of the id, clear drops all.
ApplyOne(items, action) ==
  CASE action.type = "ADD_VERIFICATION" -> <<action.rec>> \o items
    [] action.type = "REMOVE_VERIFICATION" -> SelectSeq(items, LAMBDA v : v.id # action.id)
    [] action.type = "CLEAR_HISTORY" -> <<>>
    [] OTHER -> items
RECURSIVE OneAtATime(_, _)
OneAtATime(items, actions) ==
  IF actions = <<>> THEN items
  ELSE OneAtATime(ApplyOne(items, Head(actions)), Tail(actions))

\* An invocation joins the pending ones behind all of them.
InvokedLast ==
  (queue' # queue /\ queue' # <<>>) =>
    /\ Len(queue') = Len(queue) + 1
    /\ SubSeq(queue', 1, Len(queue)) = queue
\* A render applies all that is pending, in that order, and nothing else.
RenderedInOrder ==
  (queue # <<>> /\ queue' = <<>> /\ verifications.kind = "array") =>
    /\ pc' = "ready"
    /\ verifications' = Arr(OneAtATime(verifications.items, queue))

\* C14: every add, remove or clear is queued behind the invocations that
\* are pending, whichever page or completing verification issued it, and a
\* render leaves the collection that applying the pending invocations one
\* at a time, in invocation order, gives: none is reordered, dropped or
\* merged, several in one event turn and adds of verifications that
\* complete in another order than they were submitted included.
C14_InvocationOrder == [][InvokedLast /\ RenderedInOrder]_vars

\* The verification submitted second completed first, while a clear was
\* pending and the first was still waiting: its add is queued behind the
\* clear.
C14_Witness ==
  /\ notice.step = "settle"
  /\ notice.outcome = "fulfilled"
  /\ notice.index = 2
  /\ requests # <<>>
  /\ notice.queued = <<ClearAction>>
  /\ Len(queue) = 2
  /\ queue[2].type = "ADD_VERIFICATION"

\* Two adds of verifications that completed out of submission order, and a
\* remove between them, rendered together.
C14_WitnessRendered ==
  /\ Rendered
  /\ Len(last.applied) = 2
  /\ last.applied[1].type = "ADD_VERIFICATION"
  /\ last.applied[2].type = "ADD_VERIFICATION"
  /\ verifications.items = <<last.applied[2].rec, last.applied[1].rec>> \o last.before.items

\* C19: when verifyHealthClaim rejects, whatever the error (an application
\* error of the remote, a connectivity failure the client rethrows), the
\* waiting handleSubmit dispatches nothing, so the collection, the pending
\* dispatches and the stored value are as before, the location is as
\* before, an error toast is shown and isProcessing of the page that
\* submitted is false.
C19_FailedSubmitAborts ==
  (notice.step = "settle" /\ notice.outcome = "rejected")
  => /\ queue = notice.queued
     /\ verifications = notice.before
     /\ storage = notice.stored
     /\ route = notice.routed
     /\ notice.toast = "error"
     /\ notice.owner => ~isProcessing

\* The page that submitted is still there, with a history of one record.
C19_Witness ==
  /\ notice.step = "settle"
  /\ notice.outcome = "rejected"
  /\ notice.owner
  /\ notice.flag
  /\ ~isProcessing
  /\ route = Route("/", "")
  /\ Len(verifications.items) = 1
  /\ Consistent

FilterOfLabel(label) ==
  CASE label = VerifiedTrueLabel -> FilterTrue
    [] label = MisleadingLabel -> FilterMisleading
    [] OTHER -> FilterNeedsReview

\* C22 as stated: a verdict string that is not "true" or "misleading" in any
\* letter case is labelled Needs Review by the Results page and the History
\* page, and, with no search term, a record is listed by the History page
\* under exactly the verdict filter of its label: such a record under the
\* Needs Review filter.
C22_OtherVerdictsNeedReview ==
  call.fn = "ShowRecord" =>
    /\ toLowerCase(call.verdict) \notin {VerdictTrue, VerdictMisleading} =>
         /\ call.historyLabel = NeedsReviewLabel
         /\ call.resultsLabel = NeedsReviewLabel
    /\ (call.searchTerm = <<>> /\ call.filter # FilterAll) =>
         (call.listed <=> call.filter = FilterOfLabel(call.historyLabel))

\* The text holds a collection with at least one record.
HoldsRecords(sto) ==
  /\ sto.present
  /\ LoadOutcome("healthy", sto) = "array"
  /\ JSONParse(sto.text).val.items # <<>>

\* C23 as stated: between the store's construction and the render of the
\* bulk load, a stored collection with at least one record is not replaced:
\* the mount leaves the value under the key as it found it.
C23_MountKeepsStoredCollection ==
  (last.step = "mount" /\ HoldsRecords(last.stored)) => storage = last.stored

\* The first position of the collection that holds a record of the id.
FirstOf(items, id) ==
  CHOOSE i \in 1..Len(items) :
    items[i].id = id /\ \A j \in 1..(i - 1) : items[j].id # id

\* C24: once adds are rendered, get of the id added last returns that
\* record, also when the collection already held a record of the id; the
\* records held before are all still in the collection, in their order, and
\* in the stored text. In every collection get(id) returns the record at the
\* first position of the id, so a record behind another of its id is never
\* what get returns.
C24_NewestDuplicateWins ==
  /\ (Rendered /\ last.applied # <<>> /\ IsAdds(last.applied) /\ last.before.kind = "array") =>
       LET newest == last.applied[Len(last.applied)].rec
       IN  /\ getVerification(verifications, newest.id) = Found(newest)
           /\ IsSubsequence(last.before.items, verifications.items)
           /\ storage = Stored(JSONStringify(verifications))
  /\ (pc = "ready" /\ verifications.kind = "array") =>
       \A j \in 1..Len(verifications.items) :
         getVerification(verifications, verifications.items[j].id)
           = Found(verifications.items[FirstOf(verifications.items, verifications.items[j].id)])

\* A record of id "1" is added to a collection that holds another record of
\* id "1": get("1") returns the new one, the old one is kept and stored.
C24_Witness ==
  /\ Rendered
  /\ last.applied = <<AddAction(RecA2)>>
  /\ last.before = Arr(<<RecB, RecA>>)
  /\ verifications = Arr(<<RecA2, RecB, RecA>>)
  /\ getVerification(verifications, Str("1")) = Found(RecA2)
  /\ storage = Stored(JSONStringify(Arr(<<RecA2, RecB, RecA>>)))

\* C25: whenever verifyHealthClaim resolved with the fallback, the
\* confidence is an integer from 0 to 100 and the citations are the first
\* one, two or three of the fixed list; for an input with neither "lemon"
\* nor both "vaccine" and "autism" the verdict is true or needs review,
\* never misleading, and the confidence is at least 60 and below 95.
C25_FallbackRanges ==
  FellBack =>
    LET result == call.outcome.value.result
    IN  /\ result.confidence \in 0..100
        /\ Len(result.citations) \in 1..3
        /\ result.citations = SubSeq(mockCitations, 1, Len(result.citations))
        /\ (~ContainsAnyCase(call.input, lemon) /\ ~MentionsVaccineAndAutism(call.input)) =>
             /\ result.verdict \in {"true", "needs review"}
             /\ result.confidence \in 60..94

\* 'n tea': neither rule matches; the highest draws gave verdict true, the
\* confidence 94 and all three citations.
C25_Witness ==
  /\ FellBack
  /\ call.input = TextNTea
  /\ call.outcome.value.result.verdict = "true"
  /\ call.outcome.value.result.confidence = 94
  /\ Len(call.outcome.value.result.citations) = 3

\* 'Vaccines ' alone matches neither rule; the lowest draws gave needs
\* review, the confidence 60 and one citation.
C25_WitnessLowest ==
  /\ FellBack
  /\ call.input = TextVaccines
  /\ call.outcome.value.result.verdict = "needs review"
  /\ call.outcome.value.result.confidence = 60
  /\ Len(call.outcome.value.result.citations) = 1

\* The input is empty or white space only.
Blank(text) == trim(Text(text)) = <<>>

\* No waiting request, no record of the history and no add that waits for
\* its render has a blank input.
NonBlankHistory ==
  /\ \A i \in 1..Len(requests) : ~Blank(requests[i].input)
  /\ \A i \in 1..Len(queue) :
       queue[i].type = "ADD_VERIFICATION" => ~Blank(queue[i].rec.input.v)
  /\ verifications.kind = "array"
  /\ \A i \in 1..Len(verifications.items) : ~Blank(verifications.items[i].input.v)

\* After a submit of a blank input: the error toast, no request of this
\* page waits, nothing was dispatched, the collection, the stored text and
\* the route are as they were, and isProcessing is false.
BlankSubmitIgnored ==
  (notice.step = "submit" /\ Blank(input)) =>
    /\ notice.toast = "error"
    /\ \A i \in 1..Len(requests) : ~requests[i].owner
    /\ queue = notice.queued
    /\ verifications = notice.before
    /\ storage = notice.stored
    /\ route = notice.routed
    /\ ~isProcessing

\* C26: a submit whose input is empty or white space only sends no request,
\* adds no record and leaves the processing flag false; every request that
\* waits and every record of the history has an input that is not blank.
C26_BlankSubmitIsIgnored == NonBlankHistory /\ BlankSubmitIgnored

\* A single space was submitted on a page whose history holds a record of
\* an earlier submit: the error toast, and no request.
C26_Witness ==
  /\ notice.step = "submit"
  /\ notice.toast = "error"
  /\ input = " "
  /\ requests = <<>>
  /\ ~isProcessing
  /\ verifications.kind = "array"
  /\ Len(verifications.items) = 1

\* A verification that completes issues its add behind the pending
\* invocations and touches neither the collection nor the stored text: the
\* record carries the clock's value at completion as id.
CompletionQueuesAdd ==
  (notice'.step = "settle" /\ notice'.outcome = "fulfilled") =>
    /\ verifications' = verifications
    /\ storage' = storage
    /\ Len(queue') = Len(queue) + 1
    /\ SubSeq(queue', 1, Len(queue)) = queue
    /\ queue'[Len(queue')].type = "ADD_VERIFICATION"
    /\ queue'[Len(queue')].rec.id = Str(NowString[now])
\* The render of an add that is the last pending invocation leaves the new
\* record in front of the collection as the invocations before it made it.
RenderPrependsToCurrent ==
  (/\ pc = "ready" /\ queue # <<>> /\ queue' = <<>>
   /\ verifications.kind = "array"
   /\ queue[Len(queue)].type = "ADD_VERIFICATION") =>
    verifications'
      = Arr(<<queue[Len(queue)].rec>>
              \o OneAtATime(verifications.items, SubSeq(queue, 1, Len(queue) - 1)))

\* C27: the add of a verification that completes is applied to the
\* collection as it is when the add is rendered, whatever was added, removed
\* or cleared since the submit: the collection after it is the new record
\* in front of the collection of that moment.
C27_AddAppliesToCurrent == [][CompletionQueuesAdd /\ RenderPrependsToCurrent]_vars

\* The add of a verification that completed in millisecond 2 is rendered
\* onto a collection that holds a record made in millisecond 2: that record
\* was added after this verification was submitted (a request is sent at
\* least a millisecond before it completes), and it is kept.
C27_Witness ==
  /\ Rendered
  /\ Len(last.applied) = 1
  /\ last.applied[1].type = "ADD_VERIFICATION"
  /\ last.applied[1].rec.id = Str("2")
  /\ last.before.kind = "array"
  /\ Len(last.before.items) = 1
  /\ last.before.items[1].id = Str("2")
  /\ verifications = Arr(<<last.applied[1].rec>> \o last.before.items)

\* A clear that was pending when the verification completed is rendered
\* before its add: the collection holds the new record alone.
C27_WitnessCleared ==
  /\ Rendered
  /\ Len(last.applied) = 2
  /\ last.applied[1] = ClearAction
  /\ last.applied[2].type = "ADD_VERIFICATION"
  /\ last.before.kind = "array"
  /\ last.before.items # <<>>
  /\ verifications = Arr(<<last.applied[2].rec>>)

\* C28 as stated: at most one verification request started from the submit
\* form waits for its completion at any time.
C28_OneRequestInFlight == Len(requests) <= 1

\* The records the sessions of ResultsSpec can meet: the stored one, and one
\* for each input and each millisecond of completion.
ResultRecords ==
  {RecA} \cup
  {MkVerification(Str(NowString[n]), Str(text), StoredResult(RemoteResult),
                  Str(NowISOString[n])) : n \in 1..Len(NowString), text \in ResultsInputs}

\* The results page of the id is open.
Open(id) == pc = "ready" /\ route = Route("/results", id.v)
\* The collection holds the record.
Holds(rec) ==
  /\ verifications.kind = "array"
  /\ \E i \in 1..Len(verifications.items) : verifications.items[i] = rec
\* The page shows 'Verification Not Found'.
ShowsNotFound == pageVerification.tag # "found"

\* C29 as stated: a record r that a submit added, or that was stored by an
\* earlier session, comes to be shown by the results page of r.id: from any
\* moment at which that page is open and the collection holds r, the page
\* shows r at some later moment, unless it is left or r is removed first.
C29_ShowsTheRecord ==
  \A rec \in ResultRecords :
    (Open(rec.id) /\ Holds(rec))
      ~> (pageVerification = Found(rec) \/ ~(Open(rec.id) /\ Holds(rec)))

\* What holds of the page: while it is open for an id and get(id) returns
\* r, it comes to show r.
C29_ShowsWhatGetReturns ==
  \A rec \in ResultRecords :
    (Open(rec.id) /\ getVerification(verifications, rec.id) = Found(rec))
      ~> (pageVerification = Found(rec)
            \/ ~(Open(rec.id) /\ getVerification(verifications, rec.id) = Found(rec)))

\* The last clause of C29 read of every moment: the page shows
\* 'Verification Not Found' only when get(id) is absent. Between the commit
\* of a render and the run of the page's effect it does not hold.
C29_NotFoundOnlyWhileAbsent ==
  \A id \in {Str(NowString[n]) : n \in 1..Len(NowString)} :
    (Open(id) /\ ShowsNotFound) => getVerification(verifications, id) = NotFound

\* The page of id "2" shows one record of id "2" while the collection holds
\* two of them with different inputs.
C29_WitnessCollision ==
  /\ Open(Str("2"))
  /\ pageVerification.tag = "found"
  /\ pageVerification.rec.input = Str("claim B")
  /\ Len(verifications.items) = 2
  /\ verifications.items[2].id = Str("2")
  /\ verifications.items[2].input = Str("claim A")

\* A fresh session opened on the page of the stored record shows it.
C29_WitnessFresh ==
  /\ Open(Str("1"))
  /\ requests = <<>>
  /\ pageVerification = Found(RecA)

\* C30 as stated: isLoading is true whenever a fetch of the panel is in
\* flight, and once every fetch has completed the list shown is the one the
\* most recently started fetch returned.
C30_LoadingAndLatestWins ==
  /\ fetches # <<>> => isLoading
  /\ (fetches = <<>> /\ started > 0) => news.call = started

====
